---- MODULE Spec2Model ----
(***************************************************************************)
(* ESP32-CAM doorbell (Sonerie_Video/src/main.cpp): the single-threaded    *)
(* loop(), reconnect(), sendPhotoMQTT() and the MQTT message handler       *)
(* callback(), together with their environment: the button level, the      *)
(* broker connection and the inbound command messages.                     *)
(*                                                                         *)
(* pc is the position of the control thread in loop()/reconnect()/         *)
(* sendPhotoMQTT(); cbpc is its position inside callback() while the       *)
(* handler runs (dispatched synchronously from client.loop()).  Every      *)
(* state with a delay in progress is a value of pc or cbpc.                *)
(***************************************************************************)
EXTENDS Integers, Sequences, FiniteSets, TLC

\* ------------------------------------------------------------ constants
BUTTON_DEBOUNCE_MS == 50
DOOR_UNLOCK_TIME_MS == 4000
BUZZER_CONFIRM_MS == 50
BUZZER_HAPPY_SHORT_MS == 150
BUZZER_HAPPY_LONG_MS == 400
BUZZER_HAPPY_PAUSE_MS == 100
ALARM_FLASH_COUNT == 5
ALARM_FLASH_DELAY_MS == 100
MQTT_BUFFER_SIZE == 60000
IMAGE_SIZE_LIMIT == 60000
RECONNECT_DELAY_MS == 2000
RELEASE_POLL_MS == 10
RELEASE_SETTLE_MS == 50
\* length of the alert payload "Visitor!"
ALERT_LEN == 8

\* --------------------------------------------------------------- bounds
\* granularity (ms) at which the button may bounce inside the debounce delay
TickMs == 10
\* messages the transport buffers between two polls
MaxInbox == 1
\* saturation of the count of doorbell events
MaxEvents == 2
\* frame lengths tried on each side of a size boundary
LenSlack == 1

\* ---------------------------------------------------------------- state
VARIABLES
    pc,          \* position in loop / reconnect / sendPhotoMQTT
    cbpc,        \* position in callback ("none": not running)
    cbI,         \* the denied loop's counter i
    isBusy,      \* the busy flag
    connected,   \* client.connected()
    subscribed,  \* the broker holds a subscription to topic_command
    ledRed,      \* level of LED_RED   (active low)
    ledGreen,    \* level of LED_GREEN (active low)
    buzzerPin,   \* level of BUZZER_PIN (active high)
    button,      \* level of BUTTON_PIN (active low, pulled up)
    lowFor,      \* ms the button has been low without interruption (capped)
    timer,       \* ms left of the debounce delay
    inbox,       \* inbound command payloads the transport has buffered
    fb,          \* the frame sendPhotoMQTT holds (its length) or NoFrame
    encLen,      \* length of imageBase64, or -1
    \* history of the current doorbell event, cleared when it ends
    capLen,      \* length of the real capture (NoFrame: none or failed)
    nullReturned,\* esp_camera_fb_return was called with a null frame
    alertPubs,   \* publish calls on topic_alert
    imgPubs,     \* publish calls on topic_image
    imgOk,       \* result of the image publish
    alertOk,     \* result of the alert publish
    pubConn,     \* the connection was up when the image publish was called
    acquired,    \* frames obtained from esp_camera_fb_get
    released,    \* frames given back with esp_camera_fb_return
    \* history across events
    created,     \* doorbell events created (saturating)
    awaiting,    \* an image publish was attempted and no YES/NO handled since
    decisions,   \* YES/NO messages handled since the last event was created
    readHigh,    \* the button was read high since the last event was created
    connRes,     \* result of the latest connect() of reconnect()
    subCalls,    \* subscribe() calls since that connect()
    sig,         \* outputs and length of each delay of the latest handler run
    cbMsg,       \* payload of the latest handler run
    cbLog,       \* what the latest handler run logged
    overlap      \* red and green were on together between two pin writes

vars == << pc, cbpc, cbI, isBusy, connected, subscribed, ledRed, ledGreen,
           buzzerPin, button, lowFor, timer, inbox, fb, encLen, capLen,
           nullReturned, alertPubs, imgPubs, imgOk, alertOk, pubConn,
           acquired, released, created, awaiting, decisions, readHigh,
           connRes, subCalls, sig, cbMsg, cbLog, overlap >>

progVars == << isBusy, connected, subscribed, ledRed, ledGreen, buzzerPin,
               inbox, fb, encLen, capLen, nullReturned, alertPubs, imgPubs,
               imgOk, alertOk, pubConn, acquired, released, created,
               awaiting, decisions, connRes, subCalls, sig, cbMsg, cbLog,
               overlap, cbpc, cbI >>

evVars == << capLen, nullReturned, alertPubs, imgPubs, imgOk, alertOk,
            pubConn, acquired, released >>
connVars == << connected, subscribed, connRes, subCalls >>
pinVars == << ledRed, ledGreen, buzzerPin >>
cbVars == << cbpc, cbI, sig, cbMsg, cbLog, overlap >>
camVars == << fb, encLen >>

\* fb = NULL
NoFrame == -1

Min(a, b) == IF a < b THEN a ELSE b

\* logical state of the outputs
RedOn == ledRed = "LOW"
GreenOn == ledGreen = "LOW"
BuzzerOn == buzzerPin = "HIGH"
Locked == RedOn /\ ~GreenOn /\ ~BuzzerOn

\* the payloads the server is taken to send on topic_command
YES == << "Y", "E", "S" >>
NO == << "N", "O" >>
Payloads == { YES, NO, << >>, << "y", "e", "s" >> }

\* String message built from payload[0 .. length-1]
RECURSIVE ToMessage(_, _)
ToMessage(payload, length) ==
    IF length = 0 THEN << >>
    ELSE Append(ToMessage(payload, length - 1), payload[length])

\* base64::encode output length
B64Len(n) == 4 * ((n + 2) \div 3)

\* smallest raw length whose encoding reaches the transport buffer size
EncBoundary == 3 * (MQTT_BUFFER_SIZE \div 4) - 2

FrameLens ==
    (0 .. LenSlack)
    \cup ((EncBoundary - LenSlack) .. (EncBoundary + LenSlack))
    \cup ((IMAGE_SIZE_LIMIT - LenSlack) .. (IMAGE_SIZE_LIMIT + LenSlack))

\* the size gate of sendPhotoMQTT
TooLarge_Off(len) == len > IMAGE_SIZE_LIMIT
TooLarge_Headroom(len) == B64Len(len) >= IMAGE_SIZE_LIMIT
TooLarge(len) == len >= IMAGE_SIZE_LIMIT

\* client.publish: refused when the connection is down or the payload
\* does not fit the transport buffer
PublishOk(len) == connected /\ len < MQTT_BUFFER_SIZE

\* lowFor after ms of time during which the button level did not change
Elapse(ms) == IF button = "LOW" THEN Min(lowFor + ms, BUTTON_DEBOUNCE_MS) ELSE 0

\* positions at which a doorbell event is being processed
BusyPcs == { "L_alert", "S_dummy", "S_capture", "S_encode", "S_publish",
             "S_poll", "S_beep", "S_beeping", "S_cleanup", "L_clear" }
\* ... and up to the return of loop()
EventPcs == BusyPcs \cup { "L_wait", "L_settle" }

\* ----------------------------------------------------------------- Init
\* the state setup() leaves: outputs locked, not connected, not busy
Init ==
    /\ pc = "L_conn" /\ cbpc = "none" /\ cbI = 0
    /\ isBusy = FALSE
    /\ connected = FALSE /\ subscribed = FALSE
    /\ ledRed = "LOW" /\ ledGreen = "HIGH" /\ buzzerPin = "LOW"
    /\ button = "HIGH" /\ lowFor = 0 /\ timer = 0
    /\ inbox = << >>
    /\ fb = NoFrame /\ encLen = -1
    /\ capLen = NoFrame /\ nullReturned = FALSE
    /\ alertPubs = 0 /\ imgPubs = 0 /\ imgOk = FALSE
    /\ alertOk = FALSE /\ pubConn = FALSE /\ acquired = 0 /\ released = 0
    /\ created = 0 /\ awaiting = FALSE /\ decisions = 0 /\ readHigh = FALSE
    /\ connRes = "none" /\ subCalls = 0
    /\ sig = << >> /\ cbMsg = << >> /\ cbLog = "none" /\ overlap = FALSE

\* ---------------------------------------------------------- environment
\* the button level changes (press, release or bounce)
ButtonChange ==
    /\ button' = IF button = "LOW" THEN "HIGH" ELSE "LOW"
    /\ lowFor' = 0
    /\ UNCHANGED << pc, timer, readHigh >>
    /\ UNCHANGED progVars

\* the connection to the broker is lost; the subscription goes with it
Disconnect ==
    /\ connected
    /\ connected' = FALSE /\ subscribed' = FALSE /\ inbox' = << >>
    /\ UNCHANGED << pc, cbVars, isBusy, pinVars, button, lowFor, timer,
                    camVars, evVars, created, awaiting, decisions, readHigh,
                    connRes, subCalls >>

\* the broker forwards a command message to the subscribed device
Deliver ==
    /\ connected /\ subscribed /\ Len(inbox) < MaxInbox
    /\ \E m \in Payloads : inbox' = Append(inbox, m)
    /\ UNCHANGED << pc, cbVars, isBusy, connVars, pinVars, button, lowFor,
                    timer, camVars, evVars, created, awaiting, decisions,
                    readHigh >>


\* ------------------------------------------------------------ reconnect
\* loop(): if (!client.connected()) reconnect();
LoopConnCheck ==
    /\ pc = "L_conn" /\ cbpc = "none"
    /\ pc' = IF connected THEN "L_poll" ELSE "R_while"
    /\ UNCHANGED << progVars, button, lowFor, timer, readHigh >>

\* reconnect(): while (!client.connected())
ReconnectWhile ==
    /\ pc = "R_while"
    /\ pc' = IF connected THEN "L_poll" ELSE "R_connect"
    /\ UNCHANGED << progVars, button, lowFor, timer, readHigh >>

\* reconnect(): client.connect(clientId), which the broker accepts or not
ReconnectConnect_AlwaysSubscribe ==
    /\ pc = "R_connect"
    /\ \E ok \in BOOLEAN :
          /\ connected' = ok
          /\ connRes' = IF ok THEN "ok" ELSE "fail"
    /\ pc' = "R_sub"
    /\ subscribed' = FALSE
    /\ subCalls' = 0
    /\ UNCHANGED << cbVars, isBusy, pinVars, button, lowFor, timer, inbox,
                    camVars, evVars, created, awaiting, decisions, readHigh >>
ReconnectConnect ==
    /\ pc = "R_connect"
    /\ \E ok \in BOOLEAN :
          /\ connected' = ok
          /\ connRes' = IF ok THEN "ok" ELSE "fail"
          /\ pc' = IF ok THEN "R_sub" ELSE "R_delay"
    /\ subscribed' = FALSE
    /\ subCalls' = 0
    /\ UNCHANGED << cbVars, isBusy, pinVars, button, lowFor, timer, inbox,
                    camVars, evVars, created, awaiting, decisions, readHigh >>

\* reconnect(): client.subscribe(topic_command); the result is only logged
ReconnectSubscribe ==
    /\ pc = "R_sub"
    /\ \E ok \in BOOLEAN : subscribed' = (connected /\ ok)
    /\ subCalls' = Min(subCalls + 1, 2)
    /\ pc' = "R_while"
    /\ UNCHANGED << cbVars, isBusy, connected, connRes, pinVars, button,
                    lowFor, timer, inbox, camVars, evVars, created, awaiting,
                    decisions, readHigh >>

\* reconnect(): delay(2000) after a failed connect
ReconnectBackoff_GiveUp ==
    /\ pc = "R_delay"
    /\ lowFor' = Elapse(RECONNECT_DELAY_MS)
    /\ pc' = "L_poll"
    /\ UNCHANGED << progVars, button, timer, readHigh >>
ReconnectBackoff ==
    /\ pc = "R_delay"
    /\ lowFor' = Elapse(RECONNECT_DELAY_MS)
    /\ pc' = "R_while"
    /\ UNCHANGED << progVars, button, timer, readHigh >>

\* ------------------------------------------------------------- callback
\* the outputs during a delay and the delay's length
Sample(r, g, b, ms) == << r = "LOW", g = "LOW", b = "HIGH", ms >>

\* where the thread continues when client.loop() returns
PollRet == IF pc = "L_poll" THEN "L_read1" ELSE "S_beep"

\* message == "YES", message == "NO"
IsYes_AnyCase(message) == message = YES \/ message = << "y", "e", "s" >>
IsYes(message) == message = YES
IsNo(message) == message = NO

\* the order of the writes to LED_RED ("R") and LED_GREEN ("G") on entry
\* to the granted sequence and on its return to locked
GrantedWrites == << << "R", "HIGH" >>, << "G", "LOW" >> >>
RevertWrites_RedFirst == << << "R", "LOW" >>, << "G", "HIGH" >> >>
RevertWrites == << << "G", "HIGH" >>, << "R", "LOW" >> >>

\* red and green are both on after one of the writes w, made in order
\* from the levels r and g
RECURSIVE BothOnDuring(_, _, _)
BothOnDuring(r, g, w) ==
    IF w = << >> THEN FALSE
    ELSE LET r2 == IF w[1][1] = "R" THEN w[1][2] ELSE r
             g2 == IF w[1][1] = "G" THEN w[1][2] ELSE g
         IN  (r2 = "LOW" /\ g2 = "LOW") \/ BothOnDuring(r2, g2, Tail(w))

\* the level a pin has after the writes w, from the level v
RECURSIVE LevelAfter(_, _, _)
LevelAfter(pin, v, w) ==
    IF w = << >> THEN v
    ELSE LevelAfter(pin, IF w[1][1] = pin THEN w[1][2] ELSE v, Tail(w))

\* callback() from its entry to its first delay, or to its end
CallbackEnter(payload) ==
    LET message == ToMessage(payload, Len(payload)) IN
    /\ cbMsg' = payload
    /\ cbI' = 0
    /\ IF IsYes(message) THEN
          /\ cbLog' = "granted"
          /\ ledRed' = "HIGH" /\ ledGreen' = "LOW" /\ buzzerPin' = "HIGH"
          /\ overlap' = (overlap \/ BothOnDuring(ledRed, ledGreen, GrantedWrites))
          /\ sig' = << Sample("HIGH", "LOW", "HIGH", BUZZER_HAPPY_SHORT_MS) >>
          /\ cbpc' = "g_short"
          /\ awaiting' = FALSE
          /\ decisions' = Min(decisions + 1, 2)
          /\ pc' = pc
       ELSE IF IsNo(message) THEN
          /\ cbLog' = "denied"
          /\ ledRed' = "HIGH" /\ buzzerPin' = "LOW" /\ ledGreen' = ledGreen
          /\ sig' = << Sample("HIGH", ledGreen, "LOW", ALARM_FLASH_DELAY_MS) >>
          /\ cbpc' = "d_off"
          /\ awaiting' = FALSE
          /\ decisions' = Min(decisions + 1, 2)
          /\ overlap' = overlap
          /\ pc' = pc
       ELSE
          /\ cbLog' = "unknown"
          /\ sig' = << >>
          /\ cbpc' = "none"
          /\ pc' = PollRet
          /\ UNCHANGED << pinVars, awaiting, decisions, overlap >>

\* client.loop(): hands at most one buffered message to callback()
Poll_Reentrant ==
    /\ IF connected /\ inbox # << >>
       THEN /\ inbox' = Tail(inbox)
            /\ CallbackEnter(Head(inbox))
       ELSE /\ pc' = PollRet
            /\ UNCHANGED << inbox, cbVars, pinVars, awaiting, decisions >>
    /\ UNCHANGED << isBusy, connVars, button, lowFor, timer, camVars, evVars,
                    created, readHigh >>
Poll ==
    /\ cbpc = "none"
    /\ IF connected /\ inbox # << >>
       THEN /\ inbox' = Tail(inbox)
            /\ CallbackEnter(Head(inbox))
       ELSE /\ pc' = PollRet
            /\ UNCHANGED << inbox, cbVars, pinVars, awaiting, decisions >>
    /\ UNCHANGED << isBusy, connVars, button, lowFor, timer, camVars, evVars,
                    created, readHigh >>

\* a step of callback() from one delay to the next
CallbackDelayEnd(ms, next, r, g, b, nextMs) ==
    /\ lowFor' = Elapse(ms)
    /\ ledRed' = r /\ ledGreen' = g /\ buzzerPin' = b
    /\ cbpc' = next
    /\ sig' = Append(sig, Sample(r, g, b, nextMs))
    /\ pc' = IF next = "none" THEN PollRet ELSE pc
    /\ UNCHANGED << isBusy, connVars, button, timer, inbox, camVars, evVars,
                    created, awaiting, decisions, readHigh, cbMsg, cbLog >>

\* granted: end of the short tone, start of the pause
GrantedShortEnd ==
    /\ cbpc = "g_short"
    /\ CallbackDelayEnd(BUZZER_HAPPY_SHORT_MS, "g_pause",
                        ledRed, ledGreen, "LOW", BUZZER_HAPPY_PAUSE_MS)
    /\ UNCHANGED << cbI, overlap >>

\* granted: end of the pause, start of the long tone
GrantedPauseEnd ==
    /\ cbpc = "g_pause"
    /\ CallbackDelayEnd(BUZZER_HAPPY_PAUSE_MS, "g_long",
                        ledRed, ledGreen, "HIGH", BUZZER_HAPPY_LONG_MS)
    /\ UNCHANGED << cbI, overlap >>

\* granted: end of the long tone, start of the unlocked hold
GrantedLongEnd ==
    /\ cbpc = "g_long"
    /\ CallbackDelayEnd(BUZZER_HAPPY_LONG_MS, "g_hold",
                        ledRed, ledGreen, "LOW", DOOR_UNLOCK_TIME_MS)
    /\ UNCHANGED << cbI, overlap >>

\* granted: end of the hold, back to locked; callback() returns
GrantedHoldEnd_NoRevert ==
    /\ cbpc = "g_hold"
    /\ CallbackDelayEnd(DOOR_UNLOCK_TIME_MS, "none",
                        ledRed, ledGreen, buzzerPin, 0)
    /\ UNCHANGED << cbI, overlap >>
GrantedHoldEnd ==
    /\ cbpc = "g_hold"
    /\ CallbackDelayEnd(DOOR_UNLOCK_TIME_MS, "none",
                        LevelAfter("R", ledRed, RevertWrites),
                        LevelAfter("G", ledGreen, RevertWrites), buzzerPin, 0)
    /\ overlap' = (overlap \/ BothOnDuring(ledRed, ledGreen, RevertWrites))
    /\ UNCHANGED cbI

\* denied: end of the first half-period of a flash
DeniedOffEnd ==
    /\ cbpc = "d_off"
    /\ CallbackDelayEnd(ALARM_FLASH_DELAY_MS, "d_on",
                        "LOW", ledGreen, "HIGH", ALARM_FLASH_DELAY_MS)
    /\ UNCHANGED << cbI, overlap >>

\* the denied loop's condition after i++
FlashAgain_OffByOne(i) == i <= ALARM_FLASH_COUNT
FlashAgain(i) == i < ALARM_FLASH_COUNT

\* denied: end of the second half-period: next flash, or settle and return
DeniedOnEnd ==
    /\ cbpc = "d_on"
    /\ IF FlashAgain(cbI + 1)
       THEN /\ cbI' = cbI + 1
            /\ CallbackDelayEnd(ALARM_FLASH_DELAY_MS, "d_off",
                                "HIGH", ledGreen, "LOW", ALARM_FLASH_DELAY_MS)
       ELSE /\ cbI' = 0
            /\ CallbackDelayEnd(ALARM_FLASH_DELAY_MS, "none",
                                "LOW", ledGreen, "LOW", 0)
    /\ UNCHANGED overlap


\* ----------------------------------------------------------------- loop
\* loop(): client.loop()
LoopPoll ==
    /\ pc = "L_poll"
    /\ Poll

\* loop(): first digitalRead(BUTTON_PIN); low starts delay(BUTTON_DEBOUNCE_MS)
LoopRead1 ==
    /\ pc = "L_read1" /\ cbpc = "none"
    /\ IF button = "LOW"
       THEN pc' = "L_debounce" /\ timer' = BUTTON_DEBOUNCE_MS
            /\ UNCHANGED readHigh
       ELSE pc' = "L_conn" /\ readHigh' = TRUE /\ UNCHANGED timer
    /\ UNCHANGED << progVars, button, lowFor >>

\* time passes inside the debounce delay
DebounceTick ==
    /\ pc = "L_debounce" /\ timer > 0
    /\ timer' = timer - Min(TickMs, timer)
    /\ lowFor' = Elapse(Min(TickMs, timer))
    /\ UNCHANGED << pc, progVars, button, readHigh >>

\* the condition of the second if of loop()
Trigger_NoReread(level, busy) == ~busy
Trigger(level, busy) == level = "LOW" /\ ~busy

\* isBusy = true on entry to the event
SetBusy_Forgotten == FALSE
SetBusy == TRUE

\* loop(): second digitalRead after the delay; creates the doorbell event
LoopRead2 ==
    /\ pc = "L_debounce" /\ timer = 0
    /\ IF Trigger(button, isBusy)
       THEN /\ isBusy' = SetBusy
            /\ created' = Min(created + 1, MaxEvents)
            /\ pc' = "L_alert"
            /\ readHigh' = FALSE
            /\ decisions' = 0
       ELSE /\ pc' = "L_conn"
            /\ readHigh' = (readHigh \/ button = "HIGH")
            /\ UNCHANGED << isBusy, created, decisions >>
    /\ UNCHANGED << cbVars, connVars, pinVars, button, lowFor, timer, inbox,
                    camVars, evVars, awaiting >>

\* loop(): client.publish(topic_alert, "Visitor!"); the result is only logged
LoopAlert_AbortOnFailure ==
    /\ pc = "L_alert"
    /\ alertPubs' = Min(alertPubs + 1, 2)
    /\ alertOk' = PublishOk(ALERT_LEN)
    /\ pc' = IF PublishOk(ALERT_LEN) THEN "S_dummy" ELSE "L_clear"
    /\ UNCHANGED << cbVars, isBusy, connVars, pinVars, button, lowFor, timer,
                    inbox, camVars, capLen, nullReturned, imgPubs, imgOk,
                    pubConn, acquired, released, created, awaiting,
                    decisions, readHigh >>
LoopAlert ==
    /\ pc = "L_alert"
    /\ alertPubs' = Min(alertPubs + 1, 2)
    /\ alertOk' = PublishOk(ALERT_LEN)
    /\ pc' = "S_dummy"
    /\ UNCHANGED << cbVars, isBusy, connVars, pinVars, button, lowFor, timer,
                    inbox, camVars, capLen, nullReturned, imgPubs, imgOk,
                    pubConn, acquired, released, created, awaiting,
                    decisions, readHigh >>

\* -------------------------------------------------------- sendPhotoMQTT
\* throwaway capture, returned at once (also when it is null)
SendDummy ==
    /\ pc = "S_dummy"
    /\ \E f \in FrameLens \cup { NoFrame } :
          /\ nullReturned' = (nullReturned \/ f = NoFrame)
          /\ acquired' = IF f = NoFrame THEN acquired ELSE acquired + 1
          /\ released' = IF f = NoFrame THEN released ELSE released + 1
    /\ pc' = "S_capture"
    /\ UNCHANGED << cbVars, isBusy, connVars, pinVars, button, lowFor, timer,
                    inbox, camVars, capLen, alertPubs, imgPubs, imgOk,
                    alertOk, pubConn, created, awaiting, decisions,
                    readHigh >>

\* real capture, null check and size check, with their early returns
SendCapture ==
    /\ pc = "S_capture"
    /\ \E f \in FrameLens \cup { NoFrame } :
          /\ capLen' = f
          /\ acquired' = IF f = NoFrame THEN acquired ELSE acquired + 1
          /\ IF f = NoFrame THEN
                /\ isBusy' = FALSE /\ fb' = NoFrame /\ pc' = "L_clear"
                /\ released' = released
             ELSE IF TooLarge(f) THEN
                /\ isBusy' = FALSE /\ fb' = NoFrame /\ pc' = "L_clear"
                /\ released' = released + 1
             ELSE
                /\ isBusy' = isBusy /\ fb' = f /\ pc' = "S_encode"
                /\ released' = released
    /\ UNCHANGED << cbVars, connVars, pinVars, button, lowFor, timer, inbox,
                    encLen, nullReturned, alertPubs, imgPubs, imgOk, alertOk,
                    pubConn, created, awaiting, decisions, readHigh >>

\* imageBase64 = base64::encode(fb->buf, fb->len)
SendEncode ==
    /\ pc = "S_encode"
    /\ encLen' = B64Len(fb)
    /\ pc' = "S_publish"
    /\ UNCHANGED << cbVars, isBusy, connVars, pinVars, button, lowFor, timer,
                    inbox, fb, evVars, created, awaiting, decisions, readHigh >>

\* client.publish(topic_image, imageBase64)
SendPublish_Retry ==
    /\ pc = "S_publish"
    /\ imgPubs' = Min(imgPubs + 1, 2)
    /\ imgOk' = PublishOk(encLen)
    /\ pubConn' = connected
    /\ awaiting' = TRUE
    /\ pc' = IF PublishOk(encLen) THEN "S_poll"
             ELSE IF imgPubs = 0 THEN "S_publish" ELSE "S_cleanup"
    /\ UNCHANGED << cbVars, isBusy, connVars, pinVars, button, lowFor, timer,
                    inbox, camVars, capLen, nullReturned, alertPubs, alertOk,
                    acquired, released, created, decisions, readHigh >>
SendPublish ==
    /\ pc = "S_publish"
    /\ imgPubs' = Min(imgPubs + 1, 2)
    /\ imgOk' = PublishOk(encLen)
    /\ pubConn' = connected
    /\ awaiting' = TRUE
    /\ pc' = IF PublishOk(encLen) THEN "S_poll" ELSE "S_cleanup"
    /\ UNCHANGED << cbVars, isBusy, connVars, pinVars, button, lowFor, timer,
                    inbox, camVars, capLen, nullReturned, alertPubs, alertOk,
                    acquired, released, created, decisions, readHigh >>

\* client.loop() after a successful publish
SendPoll ==
    /\ pc = "S_poll"
    /\ Poll

\* confirmation beep: buzzer on, delay(BUZZER_CONFIRM_MS) starts
SendBeepOn_WrongPin ==
    /\ pc = "S_beep" /\ cbpc = "none"
    /\ ledGreen' = "LOW"
    /\ pc' = "S_beeping"
    /\ UNCHANGED << cbVars, isBusy, connVars, ledRed, buzzerPin, button,
                    lowFor, timer, inbox, camVars, evVars, created, awaiting,
                    decisions, readHigh >>
SendBeepOn ==
    /\ pc = "S_beep" /\ cbpc = "none"
    /\ buzzerPin' = "HIGH"
    /\ pc' = "S_beeping"
    /\ UNCHANGED << cbVars, isBusy, connVars, ledRed, ledGreen, button,
                    lowFor, timer, inbox, camVars, evVars, created, awaiting,
                    decisions, readHigh >>

\* confirmation beep: delay over, buzzer off
SendBeepOff ==
    /\ pc = "S_beeping"
    /\ lowFor' = Elapse(BUZZER_CONFIRM_MS)
    /\ buzzerPin' = "LOW"
    /\ pc' = "S_cleanup"
    /\ UNCHANGED << cbVars, isBusy, connVars, ledRed, ledGreen, button,
                    timer, inbox, camVars, evVars, created, awaiting, decisions,
                    readHigh >>

\* esp_camera_fb_return(fb); sendPhotoMQTT returns
SendCleanup_Leak ==
    /\ pc = "S_cleanup"
    /\ fb' = NoFrame /\ encLen' = -1
    /\ pc' = "L_clear"
    /\ UNCHANGED << cbVars, isBusy, connVars, pinVars, button, lowFor, timer,
                    inbox, evVars, created, awaiting, decisions, readHigh >>
SendCleanup ==
    /\ pc = "S_cleanup"
    /\ fb' = NoFrame /\ encLen' = -1
    /\ released' = released + 1
    /\ pc' = "L_clear"
    /\ UNCHANGED << cbVars, isBusy, connVars, pinVars, button, lowFor, timer,
                    inbox, capLen, nullReturned, alertPubs, imgPubs, imgOk,
                    alertOk, pubConn, acquired, created, awaiting, decisions,
                    readHigh >>

\* loop(): isBusy = false after sendPhotoMQTT()
LoopClear_KeepBusy ==
    /\ pc = "L_clear"
    /\ pc' = "L_wait"
    /\ capLen' = NoFrame /\ nullReturned' = FALSE
    /\ alertPubs' = 0 /\ imgPubs' = 0 /\ imgOk' = FALSE
    /\ alertOk' = FALSE /\ pubConn' = FALSE /\ acquired' = 0 /\ released' = 0
    /\ UNCHANGED << cbVars, isBusy, connVars, pinVars, button, lowFor, timer,
                    inbox, camVars, created, awaiting, decisions, readHigh >>
LoopClear ==
    /\ pc = "L_clear"
    /\ isBusy' = FALSE
    /\ pc' = "L_wait"
    /\ capLen' = NoFrame /\ nullReturned' = FALSE
    /\ alertPubs' = 0 /\ imgPubs' = 0 /\ imgOk' = FALSE
    /\ alertOk' = FALSE /\ pubConn' = FALSE /\ acquired' = 0 /\ released' = 0
    /\ UNCHANGED << cbVars, connVars, pinVars, button, lowFor, timer, inbox,
                    camVars, created, awaiting, decisions, readHigh >>

\* loop(): while (digitalRead(BUTTON_PIN) == LOW) delay(10);
LoopWaitRelease_Skipped ==
    /\ pc = "L_wait"
    /\ pc' = "L_settle"
    /\ UNCHANGED << progVars, button, lowFor, timer, readHigh >>
LoopWaitRelease ==
    /\ pc = "L_wait"
    /\ IF button = "LOW"
       THEN pc' = pc /\ lowFor' = Elapse(RELEASE_POLL_MS)
            /\ UNCHANGED readHigh
       ELSE pc' = "L_settle" /\ readHigh' = TRUE /\ UNCHANGED lowFor
    /\ UNCHANGED << progVars, button, timer >>

\* loop(): delay(50) after the release; loop() returns
LoopSettle ==
    /\ pc = "L_settle"
    /\ lowFor' = Elapse(RELEASE_SETTLE_MS)
    /\ pc' = "L_conn"
    /\ UNCHANGED << progVars, button, timer, readHigh >>

\* ----------------------------------------------------------------- Next
Next ==
    \/ ButtonChange
    \/ Disconnect
    \/ Deliver
    \/ LoopConnCheck
    \/ ReconnectWhile
    \/ ReconnectConnect
    \/ ReconnectSubscribe
    \/ ReconnectBackoff
    \/ LoopPoll
    \/ GrantedShortEnd
    \/ GrantedPauseEnd
    \/ GrantedLongEnd
    \/ GrantedHoldEnd
    \/ DeniedOffEnd
    \/ DeniedOnEnd
    \/ LoopRead1
    \/ DebounceTick
    \/ LoopRead2
    \/ LoopAlert
    \/ SendDummy
    \/ SendCapture
    \/ SendEncode
    \/ SendPublish
    \/ SendPoll
    \/ SendBeepOn
    \/ SendBeepOff
    \/ SendCleanup
    \/ LoopClear
    \/ LoopWaitRelease
    \/ LoopSettle

Spec == Init /\ [][Next]_vars


\* ------------------------------------------------------------- fairness
\* the steps of the control thread: setup() has returned and the Arduino
\* core calls loop() for ever, so the thread always takes its next step
Thread ==
    \/ LoopConnCheck \/ ReconnectWhile \/ ReconnectConnect
    \/ ReconnectSubscribe \/ ReconnectBackoff \/ LoopPoll
    \/ GrantedShortEnd \/ GrantedPauseEnd \/ GrantedLongEnd
    \/ GrantedHoldEnd \/ DeniedOffEnd \/ DeniedOnEnd
    \/ LoopRead1 \/ DebounceTick \/ LoopRead2 \/ LoopAlert
    \/ SendDummy \/ SendCapture \/ SendEncode \/ SendPublish \/ SendPoll
    \/ SendBeepOn \/ SendBeepOff \/ SendCleanup
    \/ LoopClear \/ LoopWaitRelease \/ LoopSettle

\* a connection that client.connect() has just set up is still up when
\* the while condition of reconnect() tests it
DisconnectSettled ==
    /\ pc \notin { "R_sub", "R_while" }
    /\ Disconnect

\* client.connect() returns true
ConnectOk == ReconnectConnect /\ connected'

NextLive ==
    \/ ButtonChange
    \/ DisconnectSettled
    \/ Deliver
    \/ Thread

\* the thread keeps running and a connect attempt eventually succeeds
LiveSpec ==
    Init /\ [][NextLive]_vars /\ WF_vars(Thread) /\ SF_vars(ConnectOk)

\* --------------------------------------------------------------- claims
IsPrefix(s, t) == Len(s) <= Len(t) /\ \A i \in 1 .. Len(s) : s[i] = t[i]

ReconnectPcs == { "R_while", "R_connect", "R_sub", "R_delay" }

\* the step that creates a doorbell event
EventCreated == pc # "L_alert" /\ pc' = "L_alert"

\* C1: the busy flag is set only while one doorbell event is being
\* processed; an event is created only when none is in flight and the
\* flag is clear, and it sets the flag; a low reading of the button while
\* an event is in flight (the release wait) publishes nothing, captures
\* nothing and changes no program state.
C1_BusyExclusive ==
    [][ /\ isBusy' => pc' \in BusyPcs
        /\ EventCreated => (pc \notin EventPcs /\ ~isBusy /\ isBusy')
        /\ (pc = "L_wait" /\ button = "LOW" /\ button' = "LOW") =>
              UNCHANGED << pc, isBusy, pinVars, camVars, evVars, created,
                           awaiting, cbVars >>
      ]_vars

C1_Witness ==
    pc = "L_wait" /\ button = "LOW" /\ created = MaxEvents /\ lowFor > 0

\* an image publish was attempted and no decision has arrived since
NoDecision ==
    awaiting /\ \A i \in 1 .. Len(inbox) : inbox[i] \notin { YES, NO }

\* C2 as stated: after the image publish attempt the busy flag stays set
\* for as long as no decision message arrives.
C2_Original == NoDecision => isBusy

\* C2 amended: there is no decision wait; once the event's processing is
\* over the busy flag is clear although no decision has arrived, and the
\* next press starts a new event.
C2_BusyClearedWithoutDecision ==
    (NoDecision /\ pc \notin BusyPcs) => ~isBusy

C2_Witness ==
    pc = "L_alert" /\ NoDecision /\ cbLog = "none" /\ created = MaxEvents

\* C3 as stated: an event is created only if the low level has held for
\* the whole debounce threshold.
C3_Original ==
    [][ EventCreated => lowFor >= BUTTON_DEBOUNCE_MS ]_vars

\* C3 amended: an event is created only by the second sample, taken when
\* the whole debounce delay has passed since a low first sample, reading
\* low; a second sample that reads high creates no event.
C3_TwoSampleDebounce ==
    [][ /\ EventCreated => (pc = "L_debounce" /\ timer = 0 /\ button = "LOW")
        /\ (pc = "L_debounce" /\ timer = 0 /\ button = "HIGH" /\ pc' # pc) =>
              (pc' = "L_conn" /\ UNCHANGED << isBusy, created, evVars >>)
      ]_vars

C3_Witness ==
    pc = "L_debounce" /\ timer = 0 /\ button = "HIGH" /\ ~isBusy

\* C4: a frame at or above IMAGE_SIZE_LIMIT is never encoded or published;
\* a frame below it is encoded (4*ceil(len/3) characters) and published
\* exactly once by the time sendPhotoMQTT returns.
C4_SizeGate ==
    /\ (capLen # NoFrame /\ capLen >= IMAGE_SIZE_LIMIT) =>
          (imgPubs = 0 /\ encLen = -1 /\ fb = NoFrame)
    /\ (capLen # NoFrame /\ capLen < IMAGE_SIZE_LIMIT /\ pc = "L_clear") =>
          imgPubs = 1
    /\ pc = "S_publish" => (imgPubs = 0 /\ encLen = B64Len(capLen))
    /\ imgPubs <= 1

C4_Witness ==
    pc = "L_clear" /\ capLen = IMAGE_SIZE_LIMIT /\ imgPubs = 0

\* outputs (red on, green on, buzzer on) and length of each delay of the
\* granted sequence, and the outputs it leaves
GrantedSig ==
    << << FALSE, TRUE, TRUE, BUZZER_HAPPY_SHORT_MS >>,
       << FALSE, TRUE, FALSE, BUZZER_HAPPY_PAUSE_MS >>,
       << FALSE, TRUE, TRUE, BUZZER_HAPPY_LONG_MS >>,
       << FALSE, TRUE, FALSE, DOOR_UNLOCK_TIME_MS >>,
       << TRUE, FALSE, FALSE, 0 >> >>

\* the outputs are those of the latest recorded delay
OutputsAsRecorded ==
    sig # << >> =>
        << RedOn, GreenOn, BuzzerOn >> = SubSeq(sig[Len(sig)], 1, 3)

\* C5: a handler run with payload "YES" goes through the granted sequence
\* in order (short tone 150, pause 100, long tone 400, hold 4000 with
\* green on and red off) and returns with the outputs locked.
C5_Granted ==
    (cbLog # "none" /\ cbMsg = YES) =>
        /\ cbLog = "granted"
        /\ sig # << >> /\ IsPrefix(sig, GrantedSig)
        /\ (cbpc = "none") = (sig = GrantedSig)
        /\ cbpc # "none" => OutputsAsRecorded

C5_Witness ==
    cbMsg = YES /\ cbpc = "none" /\ sig = GrantedSig /\ Locked

\* the denied sequence with red and buzzer on in turn, g the green output
DeniedSig(g) ==
    [ i \in 1 .. (2 * ALARM_FLASH_COUNT + 1) |->
        IF i = 2 * ALARM_FLASH_COUNT + 1 THEN << TRUE, g, FALSE, 0 >>
        ELSE IF i % 2 = 1 THEN << FALSE, g, FALSE, ALARM_FLASH_DELAY_MS >>
        ELSE << TRUE, g, TRUE, ALARM_FLASH_DELAY_MS >> ]

\* C6 as stated: in each 100 ms half-period of the denied sequence exactly
\* one of the red indicator and the buzzer is on.
C6_Original ==
    cbLog = "denied" =>
        \A i \in 1 .. Len(sig) :
            sig[i][4] = ALARM_FLASH_DELAY_MS => sig[i][1] # sig[i][3]

\* C6 amended: a handler run with payload "NO" flashes red and buzzer
\* together (both off for 100 ms, then both on for 100 ms), 5 times, then
\* returns with red on and buzzer off; green keeps its level throughout.
C6_Denied ==
    (cbLog # "none" /\ cbMsg = NO) =>
        /\ cbLog = "denied"
        /\ sig # << >> /\ IsPrefix(sig, DeniedSig(sig[1][2]))
        /\ (cbpc = "none") = (Len(sig) = 2 * ALARM_FLASH_COUNT + 1)
        /\ cbpc # "none" => OutputsAsRecorded

C6_Witness ==
    cbMsg = NO /\ cbpc = "none" /\ Len(sig) = 2 * ALARM_FLASH_COUNT + 1
    /\ Locked

\* C7: a handler run with a payload other than "YES" and "NO" returns at
\* once, having logged the unknown command and left the three outputs and
\* the busy flag as they were.
C7_Unrecognised ==
    [][ ( /\ pc \in { "L_poll", "S_poll" } /\ cbpc = "none"
          /\ connected /\ connected' /\ inbox # << >>
          /\ inbox' = Tail(inbox)
          /\ Head(inbox) \notin { YES, NO } ) =>
            ( /\ UNCHANGED << pinVars, isBusy >>
              /\ cbLog' = "unknown" /\ cbMsg' = Head(inbox)
              /\ cbpc' = "none" /\ sig' = << >> )
      ]_vars

C7_Witness ==
    cbLog = "unknown" /\ cbMsg = << "y", "e", "s" >> /\ isBusy
    /\ pc = "S_beep"

\* C8: outside reconnect(), a connected client is subscribed to the
\* command topic.
C8_SubscribedWhileConnected ==
    (pc \notin ReconnectPcs /\ connected) => subscribed

\* C9: a successful connect() is followed by exactly one subscribe() call,
\* made before reconnect() goes on; a failed connect() by none.
C9_SubscribeOncePerConnect ==
    /\ pc = "R_sub" => (connRes = "ok" /\ subCalls = 0)
    /\ (connRes = "ok" /\ pc # "R_sub") => subCalls = 1
    /\ connRes \in { "fail", "none" } => subCalls = 0
    /\ pc = "R_delay" => connRes = "fail"

C9_Witness ==
    pc = "L_poll" /\ connRes = "ok" /\ subCalls = 1 /\ connected

\* C10: after the first event, an event is created only if the button has
\* been read high since the previous event was created.
C10_ReleaseBeforeRearm ==
    [][ EventCreated => (created = 0 \/ readHigh) ]_vars

C10_Witness ==
    pc = "L_alert" /\ created = MaxEvents /\ readHigh = FALSE /\ lowFor > 0

\* C11: between the creation of one doorbell event and the creation of the
\* next at most one YES/NO message is handled, and a message is turned into
\* an actuation sequence only after an event has been created.
C11_OneDecisionPerEvent ==
    /\ decisions <= 1
    /\ cbLog \in { "granted", "denied" } => created > 0

\* C12: every doorbell event makes exactly one publish call on the alert
\* topic and at most one on the image topic; after a publish that reported
\* failure the event makes no further publish call.
C12_OnePublishEach ==
    /\ alertPubs <= 1 /\ imgPubs <= 1
    /\ pc = "L_alert" => alertPubs = 0
    /\ pc \in BusyPcs \ { "L_alert" } => alertPubs = 1
    /\ pc \notin BusyPcs => (alertPubs = 0 /\ imgPubs = 0)
    /\ (imgPubs = 1 /\ ~imgOk) => pc \in { "S_cleanup", "L_clear" }
    /\ pc = "S_publish" => imgPubs = 0

C12_Witness ==
    pc = "L_clear" /\ alertPubs = 1 /\ alertOk /\ imgPubs = 1 /\ ~imgOk

\* C13: when the real capture returns no frame the event ends with nothing
\* published on the image topic, no frame held and the busy flag clear;
\* and esp_camera_fb_return is never called with a frame that was not
\* acquired, the throwaway capture included.
C13_SensorFailure ==
    /\ (pc = "L_clear" /\ capLen = NoFrame) =>
          (imgPubs = 0 /\ fb = NoFrame /\ ~isBusy)
    /\ ~nullReturned

HoldingPcs == { "S_encode", "S_publish", "S_poll", "S_beep", "S_beeping",
                "S_cleanup" }

\* C15: every frame obtained from the camera driver is released exactly
\* once: the frames released never outnumber the frames obtained, the only
\* frame obtained and not yet released is the one sendPhotoMQTT holds, the
\* real frame is held through encoding and the publish attempt, and once
\* sendPhotoMQTT has returned no frame is held.
C15_FrameOwnership ==
    /\ released <= acquired
    /\ acquired - released = IF fb # NoFrame THEN 1 ELSE 0
    /\ pc \in HoldingPcs <=> fb # NoFrame
    /\ pc \in HoldingPcs => fb = capLen
    /\ pc \in { "S_encode", "S_publish" } => imgPubs = 0
    /\ (pc = "S_cleanup" /\ fb # NoFrame) =>
          (encLen = B64Len(fb) /\ imgPubs = 1)
    /\ pc \notin BusyPcs => (acquired = 0 /\ released = 0)

C15_Witness ==
    pc = "L_clear" /\ acquired = 2 /\ released = 2 /\ imgPubs = 1 /\ imgOk

\* a step taken inside callback(), its entry and its return included
HandlerStep == cbpc # "none" \/ cbpc' # "none"

\* C16 as stated: the red, green and buzzer outputs are changed only by
\* the handler's actuation sequences.
C16_Original ==
    [][ pinVars' # pinVars => HandlerStep ]_vars

\* C16 amended: the red and green outputs are changed only by the handler;
\* the buzzer is changed by the handler and by the confirmation beep of
\* sendPhotoMQTT, which after a successful image publish turns it on and,
\* BUZZER_CONFIRM_MS later, off; the alert publish, the captures, the
\* encoding and the image publish change no output.
C16_BuzzerSecondWriter ==
    [][ /\ (ledRed' # ledRed \/ ledGreen' # ledGreen) => HandlerStep
        /\ buzzerPin' # buzzerPin =>
              \/ HandlerStep
              \/ pc = "S_beep" /\ pc' = "S_beeping" /\ imgOk
                    /\ buzzerPin' = "HIGH"
              \/ pc = "S_beeping" /\ pc' = "S_cleanup" /\ imgOk
                    /\ buzzerPin' = "LOW"
        /\ (pc \in { "L_alert", "S_dummy", "S_capture", "S_encode",
                     "S_publish" } /\ pc' # pc) => UNCHANGED pinVars
        /\ (pc = "S_beep" /\ pc' = "S_beeping") => buzzerPin' = "HIGH"
      ]_vars

C16_Witness ==
    pc = "S_beeping" /\ BuzzerOn /\ RedOn /\ ~GreenOn /\ cbLog = "none"

\* the step in which client.loop() takes a message off the transport
Dispatched == connected' /\ Len(inbox') < Len(inbox)

\* C17: a message is taken off the transport only by the poll of loop()
\* or the poll of sendPhotoMQTT, and only while no handler is running;
\* while a handler runs no message is taken, the thread stays in that poll
\* call, and the running sequence is only extended, never restarted.
C17_NonReentrant ==
    [][ /\ Dispatched =>
              (cbpc = "none" /\ pc \in { "L_poll", "S_poll" }
               /\ cbMsg' = Head(inbox))
        /\ cbpc # "none" =>
              /\ ~Dispatched
              /\ pc \in { "L_poll", "S_poll" }
              /\ pc' \in { pc, PollRet }
              /\ pc' = pc <=> cbpc' # "none"
              /\ cbMsg' = cbMsg /\ cbLog' = cbLog /\ decisions' = decisions
              /\ IsPrefix(sig, sig')
      ]_vars

C17_Witness ==
    /\ cbpc \in { "g_hold", "d_on" } /\ pc = "S_poll"
    /\ inbox # << >> /\ Head(inbox) \in { YES, NO }

\* C18: in every event the alert publish comes before any capture and
\* before the image publish; the captures follow it whether it succeeded
\* or failed; and after the image publish, successful or failed, the event
\* goes on to the final release, the clearing of the busy flag and the
\* release wait.
C18_AlertFirstBestEffort ==
    [][ /\ pc = "L_alert" =>
              (alertPubs = 0 /\ acquired = 0 /\ ~nullReturned /\ imgPubs = 0)
        /\ (acquired > 0 \/ nullReturned \/ imgPubs > 0) => alertPubs = 1
        /\ (pc = "L_alert" /\ pc' # pc) =>
              (pc' = "S_dummy" /\ alertPubs' = 1
               /\ alertOk' = (connected /\ ALERT_LEN < MQTT_BUFFER_SIZE))
        /\ (pc = "S_dummy" /\ pc' # pc) =>
              (pc' = "S_capture" /\ (acquired' = 1 \/ nullReturned'))
        /\ (pc = "S_publish" /\ pc' # pc) =>
              (imgPubs' = 1 /\ pc' = IF imgOk' THEN "S_poll" ELSE "S_cleanup")
        /\ (pc = "S_cleanup" /\ pc' # pc) => pc' = "L_clear"
        /\ (pc = "L_clear" /\ pc' # pc) => (pc' = "L_wait" /\ ~isBusy')
      ]_vars

C18_Witness ==
    pc = "L_clear" /\ ~alertOk /\ acquired = 2 /\ imgPubs = 1 /\ ~imgOk
    /\ ~pubConn

C20_LockedAtRest ==
    /\ pc = "L_conn" => (cbpc = "none" /\ Locked)
    /\ (cbpc = "none" /\ pc # "S_beeping") => Locked
    /\ ~(RedOn /\ GreenOn)
    /\ ~overlap

C20_Witness ==
    pc = "L_conn" /\ cbLog = "granted" /\ Len(sig) = 5 /\ Locked
    /\ created = MaxEvents /\ ~connected

====
